---- MODULE Spec2Model ----
(***************************************************************************)
(* Sync engine of the Cin7 -> Smartsheet uploader                          *)
(* (src/cin7_smartsheet_uploader_v5.py).                                   *)
(*                                                                         *)
(* The model holds the shared fields of Cin7SmartsheetUploaderComplete     *)
(* that the upload worker and the main (UI) thread both touch, the local   *)
(* variables of each upload worker (upload_process, and the two methods    *)
(* it calls: clear_smartsheet_data_enhanced and upload_data_enhanced), the *)
(* confirmation dialog of each session, and the remote sheet.              *)
(*                                                                         *)
(* A worker step is one stretch of code between two accesses to a shared   *)
(* field (is_processing, upload_cancelled, confirmation_result) or two     *)
(* remote calls; the main thread's handlers are atomic.  A remote call     *)
(* succeeds or raises, chosen by the environment.                          *)
(***************************************************************************)
EXTENDS Integers, Sequences, FiniteSets

(* ------------------------------ bounds -------------------------------- *)

\* Upload sessions (workers) started in one run of the program.
MaxSessions == 2
\* Rows of the processed table in the small input family.
MaxRows == 2
\* Largest value of the batch-size setting in the small input family.
MaxBatch == 2
\* Largest value of the retry setting.
MaxRetries == 2
\* Polls of the confirmation wait that make up its 30 s bound
\* (30 / 0.1 in the code).
TimeoutPolls == 1
\* Rows of the frames the processing functions are exercised on.
MaxTableRows == 2
\* Decimal digits kept after the point of a number.
FracDigits == 5
\* Connect operations the user starts while an upload may run.
MaxConnects == 1
\* Calls of process_cin7_excel_data (previews, uploads) in one run of the
\* program.
MaxRuns == 2

(* ------------------------- program constants -------------------------- *)

\* clear_smartsheet_data_enhanced: batch_size = 400
DeleteBatchSize == 400

\* upload_config['max_retries'], as __init__ sets it
DefaultRetries == 3

\* upload_config['retry_delay'], in seconds
RetryDelay == 2

Sessions == 1..MaxSessions

VARIABLES
    is_processing,          \* self.is_processing
    upload_cancelled,       \* self.upload_cancelled
    confirmation_result,    \* self.confirmation_result: "None", "True", "False"
    closed,                 \* root.destroy() has run
    overwrite_var,          \* self.overwrite_var
    batch_size,             \* self.batch_size_var / upload_config['batch_size']
    max_retries,            \* self.max_retries_var / upload_config['max_retries']
    processed_df,           \* the table process_cin7_excel_data returns:
                            \*   n rows, nocell = rows that yield no cell
    session_limit,          \* uploads the user starts in this run, at most
    started,                \* upload workers spawned so far
    worker,                 \* worker[s]: locals and history of session s
    dialog,                 \* dialog[s]: confirmation prompt of session s
    existing,               \* rows the remote sheet held at program start
                            \* (ids 1..existing)
    sheet_rows,             \* ids of the rows now in the remote sheet
    added,                  \* added[j]: <<session, table row>> of the j-th row
                            \* appended to the remote sheet
    proc,                   \* the processing function exercised (preview):
                            \* its input, its toggles and its result
    smartsheet_client,      \* self.smartsheet_client: 0 is None, 1 the client
                            \* made before the first upload, 2, 3.. later ones
    smartsheet_sheet,       \* self.smartsheet_sheet: 0 is None, otherwise the
                            \* sheet it describes: 1 the sheet whose rows are
                            \* in sheet_rows, 2 another sheet, with other
                            \* column ids, that starts empty
    connector,              \* the connect thread: its position, the
                            \* connects started so far, the sheet of the URL
    excel_file_path,        \* self.excel_file_path: 0 is "", otherwise the
                            \* file selected
    file_analysis           \* self.file_analysis: whether the attribute
                            \* exists, and the tables df and df_multi it holds

vars == <<is_processing, upload_cancelled, confirmation_result, closed,
          overwrite_var, batch_size, max_retries, processed_df,
          session_limit, started, worker, dialog, existing, sheet_rows, added,
          proc, smartsheet_client, smartsheet_sheet, connector,
          excel_file_path, file_analysis>>

shared == <<is_processing, upload_cancelled, confirmation_result>>
upload_config == <<overwrite_var, batch_size, max_retries, processed_df,
                  session_limit>>
selection == <<excel_file_path, file_analysis>>
settings == <<upload_config, proc, selection>>
connection == <<smartsheet_client, smartsheet_sheet, connector>>
inputs == <<settings, connection>>
remote == <<existing, sheet_rows, added>>

(* ------------------------------ helpers ------------------------------- *)

Min(a, b) == IF a < b THEN a ELSE b

SeqRange(q) == {q[i] : i \in 1..Len(q)}

\* The j-th row appended to the remote sheet gets id existing + j.
NewIds(k) == {existing + Len(added) + j : j \in 1..k}

\* sheet.rows as get_sheet returns it: the ids in the sheet, in sheet order.
SheetRowIds ==
    SelectSeq([i \in 1..(existing + Len(added)) |-> i],
              LAMBDA i : i \in sheet_rows)

\* The rows get_sheet returns for a sheet: the other sheet has none.
RowIdsOf(sheet) == IF sheet = 1 THEN SheetRowIds ELSE <<>>

(* ------------------------ batching arithmetic ------------------------- *)

\* A count of batches that drops the last, partial one.
TotalBatches_floor(len, bs) == len \div bs

\* (len + batch_size - 1) // batch_size, in both phases
TotalBatches(len, bs) == (len + bs - 1) \div bs

\* start_idx = batch_num * batch_size
StartIdx(k, bs) == k * bs

\* end_idx = min((batch_num + 1) * batch_size, len)
EndIdx(k, bs, len) == Min((k + 1) * bs, len)

\* rows_to_add of batch k: one remote row per table row of
\* df.iloc[start_idx:end_idx] that got at least one cell (new_row.cells).
RowsToAdd(k) ==
    SelectSeq([i \in 1..(EndIdx(k, batch_size, processed_df.n)
                          - StartIdx(k, batch_size))
                  |-> StartIdx(k, batch_size) + i],
              LAMBDA r : r \notin processed_df.nocell)

\* A percentage of the upload phase that counts the rows still to send.
ProgressPct_left(up, total) == 40 + ((total - up) * 50) \div total

\* progress_pct = 40 + (uploaded_rows / total_rows) * 50, rounded down
ProgressPct(up, total) == 40 + (up * 50) \div total

(* --------------------------- worker records --------------------------- *)

IdleWorker ==
    [ pc            |-> "idle",
      wait_time     |-> 0,      \* polls of the confirmation wait so far
      row_ids       |-> <<>>,   \* clear: row_ids
      batch_num     |-> 0,      \* batch_num of the running loop
      attempt       |-> 0,      \* attempt of the running retry loop
      uploaded_rows |-> 0,      \* upload: uploaded_rows
      success       |-> FALSE,  \* upload_process: success
      \* history of the session
      phases        |-> <<>>,   \* phases entered, in order
      outcomes      |-> <<>>,   \* outcome events put on message_queue
      finished      |-> 0,      \* upload_finished events put
      pct           |-> 0,      \* percentage of the last progress_update
      pct_fell      |-> FALSE,  \* a progress_update carried less than the
                                \* one before it
      pct_out       |-> FALSE,  \* a progress_update carried a percentage
                                \* outside 0..100
      reported      |-> -1,     \* row count of the success report
      ops           |-> <<>>,   \* kinds of DeleteRows/AddRows calls, in order
                                \* (a run of equal kinds is kept once)
      del_ok        |-> <<>>,   \* <<start_idx, end_idx>> of each successful
                                \* DeleteRows call
      del_max       |-> 0,      \* most ids passed to one DeleteRows call
      del_batches   |-> -1,     \* total_batches reported by clearing
      clear_done    |-> FALSE,  \* clearing ran to its end
      add_ok        |-> <<>>,   \* <<start_idx, end_idx, len(rows_to_add)>> of
                                \* each successful AddRows call
      add_tried     |-> 0,      \* highest batch (1-based) passed to AddRows
      accepted      |-> FALSE,  \* found confirmation_result True (line 712)
      own_accept    |-> FALSE,  \* own prompt answered yes during the wait
      wait_exit     |-> "none", \* how the wait ended: "accept"; or not accepted
                                \* after a cancellation request ("cancel"),
                                \* after the own prompt was answered
                                \* ("answered"), at the bound ("timeout"), or
                                \* with none of these ("stale")
      seen_cancel   |-> FALSE,  \* found upload_cancelled set at a checkpoint
      after_cancel  |-> FALSE,  \* DeleteRows/AddRows call after seen_cancel
      exhausted     |-> 0,      \* batch (1-based) whose AddRows retries ran out
      after_exh     |-> FALSE,  \* DeleteRows/AddRows call after exhausted
      cancel_mid    |-> 0,      \* batches done when cancellation was requested
                                \* between two upload batches (0: not so)
      cancel_req    |-> 0,      \* 0: no cancellation requested in the session
                                \* 1: requested, no checkpoint passed since
                                \* 2: requested and a checkpoint passed since
      lost_call     |-> FALSE,  \* DeleteRows/AddRows call with cancel_req = 2
      cancel_retry  |-> "none", \* "del"/"add": cancellation was requested while
                                \* a delete/upload batch waited for its retry
      retry_after   |-> FALSE,  \* DeleteRows/AddRows call after cancel_retry
      clear_failed  |-> FALSE,  \* clearing raised (fetch or delete retries
                                \* ran out)
      after_clear_fail |-> FALSE, \* DeleteRows/AddRows call after clear_failed
      \* the calls of the batch called last
      call_kind     |-> "none", \* "del" or "add"
      call_batch    |-> 0,      \* its batch_num
      tries         |-> 0,      \* calls made for it so far
      call_ok       |-> FALSE,  \* the last of them succeeded
      fails         |-> {},     \* classes of their failures
      backoff       |-> 0,      \* seconds slept after the last of them, before
                                \* the next attempt (0: none)
      recalled      |-> FALSE,  \* some batch was called again after a call
                                \* of it succeeded
      column_map    |-> 0,      \* upload: the sheet whose column ids
                                \* column_map holds (0: not built)
      fetched       |-> 0,      \* clear: the sheet row_ids was read from
      clients       |-> {},     \* clients of the DeleteRows/AddRows calls
      sheets        |-> {},     \* sheets of the DeleteRows/AddRows calls
      add_sheets    |-> {},     \* sheets of the AddRows calls
      late          |-> {} ]    \* batches (1-based) with an AddRows call that
                                \* timed out for the worker and was applied

\* message_queue.put(("log", <outcome message>, ...))
Emit(w, kind) == [w EXCEPT !.outcomes = Append(@, kind)]

\* message_queue.put(("progress_update", ..., p))
Progress(w, p) ==
    [w EXCEPT !.pct = p,
              !.pct_fell = @ \/ p < w.pct,
              !.pct_out = @ \/ p < 0 \/ p > 100]

EnterPhase(w, ph) == [w EXCEPT !.phases = Append(@, ph)]

\* The worker reads upload_cancelled at a checkpoint.
Checkpoint(w) ==
    [w EXCEPT !.seen_cancel = @ \/ upload_cancelled,
              !.cancel_req = IF @ = 1 THEN 2 ELSE @]

\* The worker issues a DeleteRows or AddRows call.
NoteCall(w, kind) ==
    [w EXCEPT !.ops = IF @ # <<>> /\ @[Len(@)] = kind THEN @ ELSE Append(@, kind),
              !.after_cancel = @ \/ w.seen_cancel,
              !.after_exh = @ \/ (w.exhausted > 0),
              !.lost_call = @ \/ (w.cancel_req = 2),
              !.retry_after = @ \/ (w.cancel_retry # "none"),
              !.after_clear_fail = @ \/ w.clear_failed,
              !.clients = @ \cup {smartsheet_client},
              !.sheets = @ \cup {smartsheet_sheet},
              !.add_sheets = IF kind = "add" THEN @ \cup {smartsheet_sheet} ELSE @]

\* self.smartsheet_client.Sheets.<operation>(self.smartsheet_sheet.id, ..)
\* can be evaluated: neither field is None (otherwise AttributeError).
Connected == smartsheet_client # 0 /\ smartsheet_sheet # 0

\* What a remote call does: it returns, it times out
\* (requests.exceptions.Timeout) or it raises another error.
CallResults == {"ok", "timeout", "error"}

\* The worker's DeleteRows or AddRows call of batch w.batch_num ended with r.
NoteTry(w, kind, r) ==
    LET same == w.call_kind = kind /\ w.call_batch = w.batch_num
    IN  [w EXCEPT !.call_kind = kind,
                  !.call_batch = w.batch_num,
                  !.tries = IF same THEN @ + 1 ELSE 1,
                  !.recalled = @ \/ (same /\ w.call_ok),
                  !.call_ok = (r = "ok"),
                  !.fails = (IF same THEN @ ELSE {})
                              \cup (IF r = "ok" THEN {} ELSE {r}),
                  !.backoff = 0]

(* --------------------------- text and numbers ------------------------- *)

\* Text is a TLA+ string; a character is a string of length one.
Char(s, i) == SubSeq(s, i, i)

UpperChars == "ABCDEFGHIJKLMNOPQRSTUVWXYZ"
LowerChars == "abcdefghijklmnopqrstuvwxyz"
DigitChars == "0123456789"
\* \s of the regular expressions, and what str.strip() removes
Whitespace == {" ", "\t", "\n", "\r"}

CharsOf(s) == {Char(s, i) : i \in 1..Len(s)}

\* str.lower() of one character
LowerChar(c) ==
    IF c \in CharsOf(UpperChars)
    THEN Char(LowerChars, CHOOSE i \in 1..Len(UpperChars) : Char(UpperChars, i) = c)
    ELSE c

RECURSIVE Lower(_)
\* str.lower()
Lower(s) == IF s = "" THEN "" ELSE LowerChar(Char(s, 1)) \o Lower(Tail(s))

\* pattern in s (substring test)
Contains(s, pattern) ==
    \E i \in 1..(Len(s) - Len(pattern) + 1) :
        SubSeq(s, i, i + Len(pattern) - 1) = pattern

RECURSIVE LStrip(_, _)
LStrip(s, cs) ==
    IF s # "" /\ Char(s, 1) \in cs THEN LStrip(Tail(s), cs) ELSE s

RECURSIVE RStrip(_, _)
RStrip(s, cs) ==
    IF s # "" /\ Char(s, Len(s)) \in cs
    THEN RStrip(SubSeq(s, 1, Len(s) - 1), cs) ELSE s

\* str.strip() and str.strip(chars)
Strip(s) == RStrip(LStrip(s, Whitespace), Whitespace)
StripChars(s, cs) == RStrip(LStrip(s, cs), cs)

RECURSIVE RemoveChars(_, _)
\* str.replace(r'[<cs>]', '', regex=True)
RemoveChars(s, cs) ==
    IF s = "" THEN ""
    ELSE (IF Char(s, 1) \in cs THEN "" ELSE Char(s, 1)) \o RemoveChars(Tail(s), cs)

RECURSIVE KeepChars(_, _)
\* str.replace(r'[^<cs>]', '', regex=True)
KeepChars(s, cs) ==
    IF s = "" THEN ""
    ELSE (IF Char(s, 1) \in cs THEN Char(s, 1) ELSE "") \o KeepChars(Tail(s), cs)

RECURSIVE Pow10(_)
Pow10(k) == IF k = 0 THEN 1 ELSE 10 * Pow10(k - 1)

\* A number is an integer count of units of 10^-FracDigits.
Scale == Pow10(FracDigits)

IsDigits(s) == s # "" /\ CharsOf(s) \subseteq CharsOf(DigitChars)

DigitVal(c) == CHOOSE d \in 0..9 : Char(DigitChars, d + 1) = c

RECURSIVE DigitsVal(_)
DigitsVal(s) ==
    IF s = "" THEN 0
    ELSE 10 * DigitsVal(SubSeq(s, 1, Len(s) - 1)) + DigitVal(Char(s, Len(s)))

RECURSIVE IntStr(_)
\* str() of a non-negative int
IntStr(k) ==
    IF k < 10 THEN Char(DigitChars, k + 1)
    ELSE IntStr(k \div 10) \o Char(DigitChars, (k % 10) + 1)

RECURSIVE PadLeft(_, _)
PadLeft(s, width) == IF Len(s) >= width THEN s ELSE PadLeft("0" \o s, width)

\* The cells of a table: text, int64, float64 or NaN.
StrV(s)   == [t |-> "str",   s |-> s,  n |-> 0]
IntV(n)   == [t |-> "int",   s |-> "", n |-> n]
FloatV(n) == [t |-> "float", s |-> "", n |-> n]
NaN       == [t |-> "nan",   s |-> "", n |-> 0]

IsNum(v) == v.t \in {"int", "float"}

\* Parsing of a decimal literal: [sign] digits [. digits] or [sign] . digits
\* (the literals of the inputs; exponents, inf and nan do not occur in them).
ParseNumber(s) ==
    LET signed == s # "" /\ Char(s, 1) \in {"-", "+"}
        body   == IF signed THEN Tail(s) ELSE s
        sgn    == IF signed /\ Char(s, 1) = "-" THEN -1 ELSE 1
        dots   == {i \in 1..Len(body) : Char(body, i) = "."}
    IN  IF dots = {}
        THEN IF IsDigits(body) THEN IntV(sgn * DigitsVal(body) * Scale) ELSE NaN
        ELSE IF Cardinality(dots) > 1 THEN NaN
        ELSE LET d  == CHOOSE i \in dots : TRUE
                 ip == SubSeq(body, 1, d - 1)
                 fp == SubSeq(body, d + 1, Len(body))
                 fr == IF Len(fp) <= FracDigits
                       THEN DigitsVal(fp) * Pow10(FracDigits - Len(fp))
                       ELSE DigitsVal(SubSeq(fp, 1, FracDigits))
             IN  IF /\ (ip = "" \/ IsDigits(ip))
                    /\ (fp = "" \/ IsDigits(fp))
                    /\ ~(ip = "" /\ fp = "")
                 THEN FloatV(sgn * (DigitsVal(ip) * Scale + fr))
                 ELSE NaN

\* repr() of a float, as astype(str) gives it: fixed notation from 1e-4 up,
\* exponent notation below ("1e-05").
FloatStr(n) ==
    LET a    == IF n < 0 THEN -n ELSE n
        sign == IF n < 0 THEN "-" ELSE ""
        ds   == IntStr(a)
        frac == RStrip(PadLeft(IntStr(a % Scale), FracDigits), {"0"})
        mant == RStrip(Tail(ds), {"0"})
    IN  IF a = 0 THEN "0.0"
        ELSE IF a < Pow10(FracDigits - 4)
        THEN sign \o Char(ds, 1) \o (IF mant = "" THEN "" ELSE "." \o mant)
                  \o "e-" \o PadLeft(IntStr(FracDigits - (Len(ds) - 1)), 2)
        ELSE sign \o IntStr(a \div Scale) \o "."
                  \o (IF frac = "" THEN "0" ELSE frac)

\* astype(str) of one cell
AsStr(v) ==
    CASE v.t = "str"   -> v.s
      [] v.t = "int"   -> (IF v.n < 0 THEN "-" ELSE "")
                          \o IntStr((IF v.n < 0 THEN -v.n ELSE v.n) \div Scale)
      [] v.t = "float" -> FloatStr(v.n)
      [] v.t = "nan"   -> "nan"

\* pd.to_numeric(errors='coerce') of one cell
ToNumeric(v) == IF v.t = "str" THEN ParseNumber(v.s) ELSE v

\* pd.to_numeric(column, errors='coerce').fillna(0): int64 when every cell is
\* an integer, float64 otherwise, NaN replaced by 0.
ToNumericFill0(col) ==
    LET p == [r \in 1..Len(col) |-> ToNumeric(col[r])]
    IN  IF \A r \in 1..Len(col) : p[r].t = "int"
        THEN p
        ELSE [r \in 1..Len(col) |-> FloatV(p[r].n)]

(* ------------------------------ tables -------------------------------- *)

\* A DataFrame: the column labels, one sequence of n cells per column.
Frame(cols, data, n) == [cols |-> cols, data |-> data, n |-> n]

\* numeric_columns of clean_numeric_data and process_cin7_excel_data
numeric_columns ==
    {"SOH", "Incoming NOT paid", "Open Sales", "Grand Total", "Available"}

\* the keywords that make a column a potential numeric column
NumericKeywords ==
    {"stock qty", "stock value", "qty", "total", "incoming", "sales"}

\* all_numeric_columns, restricted to the columns of the frame
all_numeric_columns(cols) ==
    {c \in SeqRange(cols) :
        \/ c \in numeric_columns
        \/ \E keyword \in NumericKeywords : Contains(Lower(c), keyword)}

\* The three text replacements of clean_numeric_data on one cell.
CleanText(s) ==
    LET a == RemoveChars(s, {",", "$"} \cup Whitespace)
        b == KeepChars(a, CharsOf(DigitChars) \cup {".", "-"})
    IN  IF b \in {"", "nan", "None", "null"} THEN "0" ELSE b

\* clean_numeric_data on one column: astype(str), the replacements,
\* to_numeric and fillna(0).
CleanColumn(col) ==
    ToNumericFill0([r \in 1..Len(col) |-> StrV(CleanText(AsStr(col[r])))])

\* clean_numeric_data(df)
clean_numeric_data(df) ==
    [df EXCEPT !.data =
        [c \in 1..Len(df.cols) |->
            IF df.cols[c] \in all_numeric_columns(df.cols)
            THEN CleanColumn(df.data[c])
            ELSE df.data[c]]]

\* process_cin7_excel_data, lines 779-788: the flat label of one column of
\* a two-level header.
new_columns(c0, c1) ==
    IF c0 # "" /\ c1 # "" /\ Strip(c0) # Strip(c1)
    THEN StripChars(c0 \o "_" \o c1, {"_"})
    ELSE Strip(IF c1 # "" THEN c1 ELSE c0)

\* The target columns of cin7_column_mapping, in the order of the dict.
Targets ==
    <<"ProductCode", "Product", "Branch", "SOH", "Incoming NOT paid",
      "Open Sales", "Grand Total">>

TargetIndex(target) == CHOOSE k \in 1..Len(Targets) : Targets[k] = target

\* cin7_column_mapping[target]: the search patterns
cin7_column_mapping(target) ==
    CASE target = "ProductCode" ->
            {"productcode", "product_code", "product code"}
      [] target = "Product" ->
            {"product", "description", "product description"}
      [] target = "Branch" ->
            {"branch", "location", "warehouse"}
      [] target = "SOH" ->
            {"soh", "4 - soh", "stock on hand", "soh_stock qty"}
      [] target = "Incoming NOT paid" ->
            {"incoming", "5 -", "open po", "incoming not paid",
             "incoming_not_paid_stock qty"}
      [] target = "Open Sales" ->
            {"open sales", "6 -", "allocated", "open_sales_stock qty"}
      [] target = "Grand Total" ->
            {"grand total", "7 -", "total", "grand_total_stock qty"}

\* The first column of the frame whose lower-cased label contains one of the
\* patterns (0: none).
SourceCol(cols, target) ==
    LET m == {j \in 1..Len(cols) :
                 \E pattern \in cin7_column_mapping(target) :
                     Contains(Lower(cols[j]), pattern)}
    IN  IF m = {} THEN 0 ELSE CHOOSE j \in m : \A k \in m : j <= k

\* The default of a target column without a source column.
DefaultValue(target) ==
    IF target \in {"SOH", "Incoming NOT paid", "Open Sales", "Grand Total"}
    THEN "0" ELSE "N/A"

\* An event put on message_queue: its severity and the canonical column it
\* is about ("" when it is about none).
Event(sev, about) == [sev |-> sev, about |-> about]

\* The label of column j is the label of another column of the frame too:
\* df[label] is then a frame of several columns, and its assignment to one
\* column of mapped_df (line 860) raises ValueError.
Duplicated(cols, j) == \E i \in 1..Len(cols) : i # j /\ cols[i] = cols[j]

RECURSIVE MapColumns(_, _, _)
\* apply_cin7_column_mapping, lines 848-870: the loop over the targets from
\* the k-th on.  mapped_df starts as an empty frame without index; a scalar
\* assigned to it then makes a column without rows, and the first column
\* copied from df brings the index, the columns made before it being filled
\* with NaN.  The loop stops where line 860 raises.
MapColumns(df, k, m) ==
    IF k > Len(Targets) THEN m
    ELSE LET target == Targets[k]
             j      == SourceCol(df.cols, target)
         IN  IF j # 0 /\ Duplicated(df.cols, j)
             THEN [m EXCEPT !.raised = TRUE]
             ELSE IF j # 0
             THEN MapColumns(df, k + 1,
                    [m EXCEPT
                       !.data = Append(IF m.indexed THEN @
                                       ELSE [c \in 1..Len(@) |->
                                               [r \in 1..df.n |-> NaN]],
                                       df.data[j]),
                       !.indexed = TRUE,
                       !.log = @ \cup {Event("INFO", target)}])
             ELSE MapColumns(df, k + 1,
                    [m EXCEPT
                       !.data = Append(@,
                                  IF m.indexed
                                  THEN [r \in 1..df.n |-> StrV(DefaultValue(target))]
                                  ELSE <<>>),
                       !.log = @ \cup {Event("WARNING", target)}])

\* astype(int).astype(str) of a difference: truncation toward zero.
IntText(n) ==
    LET a == (IF n < 0 THEN -n ELSE n) \div Scale
    IN  StrV((IF n < 0 /\ a # 0 THEN "-" ELSE "") \o IntStr(a))

\* A handler that returns what the loop had mapped when it raised.
OnMappingError_partial(df, m) ==
    [df     |-> Frame(SubSeq(Targets, 1, Len(m.data)), m.data,
                      IF m.indexed THEN df.n ELSE 0),
     log    |-> m.log \cup {Event("WARNING", "")},
     raised |-> TRUE]

\* apply_cin7_column_mapping, lines 886-888: the handler logs a warning and
\* returns df.
OnMappingError(df, m) ==
    [df     |-> df,
     log    |-> m.log \cup {Event("WARNING", "")},
     raised |-> TRUE]

\* apply_cin7_column_mapping(df): the frame returned, the events, and
\* whether the handler of lines 886-888 ran.
apply_cin7_column_mapping(df) ==
    LET m    == MapColumns(df, 1, [data |-> <<>>, indexed |-> FALSE, log |-> {},
                                   raised |-> FALSE])
        n    == IF m.indexed THEN df.n ELSE 0
        soh_numeric        == ToNumericFill0(m.data[TargetIndex("SOH")])
        open_sales_numeric == ToNumericFill0(m.data[TargetIndex("Open Sales")])
        avail == [r \in 1..n |->
                    IntText(soh_numeric[r].n - open_sales_numeric[r].n)]
    IN  IF m.raised THEN OnMappingError(df, m)
        ELSE [df     |-> Frame(Targets \o <<"Available">>, Append(m.data, avail), n),
              log    |-> m.log \cup {Event("INFO", "Available"),
                                    Event("SUCCESS", "")},
              raised |-> FALSE]

\* The footer markers of the row filter (a regular expression searched in
\* the cell, case=False).
FooterMarkers == {"Grand Total", "Total", "ProductCode"}

\* product_code_col: the first column whose lower-cased label contains a
\* ProductCode pattern (0: none).
product_code_col(cols) == SourceCol(cols, "ProductCode")

\* The boolean mask of the row filter on one cell of the key column; NaN
\* differs from '' and from 'nan', and str.contains(na=False) is False on it.
KeepRow(v) ==
    \/ v.t = "nan"
    \/ /\ v.t = "str"
       /\ v.s # ""
       /\ v.s # "nan"
       /\ ~\E marker \in FooterMarkers : Contains(Lower(v.s), Lower(marker))

\* The .str accessor raises on a column that holds numbers.
FilterRaises(df) ==
    /\ product_code_col(df.cols) # 0
    /\ \E r \in 1..df.n : IsNum(df.data[product_code_col(df.cols)][r])

\* process_cin7_excel_data, lines 812-831: the row filter.
FilterRows(df) ==
    LET pk   == product_code_col(df.cols)
        keep == SelectSeq([r \in 1..df.n |-> r],
                          LAMBDA r : KeepRow(df.data[pk][r]))
    IN  IF pk = 0 THEN df
        ELSE Frame(df.cols,
                   [c \in 1..Len(df.cols) |->
                       [k \in 1..Len(keep) |-> df.data[c][keep[k]]]],
                   Len(keep))

\* What file_analysis holds: df, and the outer labels of df_multi's
\* two-level header; the inner labels and the data of df_multi are those
\* of df. flat holds the labels of df_multi once its header has one level.
\* With outer and flat both <<>>, df_multi is None.
File(df, outer) == [df |-> df, outer |-> outer, flat |-> <<>>]

EmptyFrame == Frame(<<>>, <<>>, 0)

\* process_cin7_excel_data, line 787: working_df.columns = new_columns,
\* where working_df is the object file_analysis holds as df_multi (line
\* 773): the tables held after the run. The later steps work on the new
\* frame fillna returns (line 791).
StoredAfter(file, multi, new_cols) ==
    IF multi THEN [file EXCEPT !.outer = <<>>, !.flat = new_cols] ELSE file

\* process_cin7_excel_data with the two toggles: the reconciled frame
\* (rec), the tables held afterwards (stored), the frame handed to the mapper when mapping is on (given), whether
\* the mapper's handler ran (map_raised), the frame the row filter gets
\* (pre), the frame returned (out, none when the result is None) and the
\* events.
process_cin7_excel_data(file, verbatim, mapping) ==
    LET df      == file.df
        multi   == verbatim /\ file.outer # <<>>
        rec     == IF multi
                   THEN [df EXCEPT !.cols =
                           [j \in 1..Len(df.cols) |->
                               new_columns(file.outer[j], df.cols[j])]]
                   ELSE IF verbatim /\ file.flat # <<>>
                   THEN [df EXCEPT !.cols = file.flat]
                   ELSE df
        filled  == [rec EXCEPT !.data =
                      [c \in 1..Len(rec.cols) |->
                          [r \in 1..rec.n |->
                              IF rec.data[c][r] = NaN THEN StrV("")
                              ELSE rec.data[c][r]]]]
        cleaned == clean_numeric_data(filled)
        strd    == [cleaned EXCEPT !.data =
                      [c \in 1..Len(cleaned.cols) |->
                          IF cleaned.cols[c] \in all_numeric_columns(cleaned.cols)
                          THEN cleaned.data[c]
                          ELSE [r \in 1..cleaned.n |->
                                   StrV(AsStr(cleaned.data[c][r]))]]]
        mp      == apply_cin7_column_mapping(strd)
        pre     == IF mapping THEN mp.df ELSE strd
        raised  == ~verbatim /\ FilterRaises(pre)
    IN  [rec  |-> rec,
         stored |-> StoredAfter(file, multi, rec.cols),
         given |-> strd,
         map_raised |-> mapping /\ mp.raised,
         pre  |-> pre,
         out  |-> IF raised THEN EmptyFrame
                  ELSE IF verbatim THEN pre ELSE FilterRows(pre),
         none |-> raised,
         log  |-> {Event("INFO", "")}
                    \cup (IF multi THEN {Event("INFO", "")} ELSE {})
                    \cup (IF mapping THEN mp.log ELSE {})
                    \cup {Event(IF raised THEN "ERROR" ELSE "SUCCESS", "")}]

NoResult ==
    [rec |-> EmptyFrame, stored |-> File(EmptyFrame, <<>>),
     given |-> EmptyFrame, map_raised |-> FALSE,
     pre |-> EmptyFrame, out |-> EmptyFrame, none |-> FALSE, log |-> {}]

\* No processing function has been called.
IdleProc ==
    [fam |-> "none", stage |-> 0, c0 |-> "", c1 |-> "", flat |-> "",
     file |-> File(EmptyFrame, <<>>), verbatim |-> FALSE, mapping |-> FALSE,
     res |-> NoResult, out2 |-> EmptyFrame, batches |-> <<>>,
     selected |-> 0, cached |-> FALSE, read_ok |-> TRUE]

(* ------------------------------- Init --------------------------------- *)

\* The tables processing can return: n rows (0: None or empty), of which the
\* rows in nocell yield no cell in upload_data_enhanced (every value empty,
\* or no column of the table is a column of the sheet).
Tables == {[n |-> n, nocell |-> e] : n \in 0..MaxRows, e \in SUBSET (1..MaxRows)}
SmallTables == {t \in Tables : t.nocell \subseteq 1..t.n}

\* Sizes of the remote sheet at program start: small ones, and the ones
\* around multiples of the delete batch size.
SmallSheets == {0, 1}
LargeSheets == {DeleteBatchSize, DeleteBatchSize + 1, 2 * DeleteBatchSize + 1}

\* The spec's example of upload batching: 45 rows, batch size 20.
ExampleTable == [n |-> 45, nocell |-> {}]
ExampleBatch == 20

\* No connect thread runs; the connection in use was made before.
IdleConnector == [pc |-> "idle", runs |-> 0, target |-> 0]

\* file_analysis before the first analysis: the attribute does not exist.
NoAnalysis == [has |-> FALSE, tables |-> File(EmptyFrame, <<>>)]

\* A file is selected (the guard of line 666 passes).
FileSelected ==
    /\ excel_file_path = 1
    /\ file_analysis = NoAnalysis

InitEngine ==
    /\ is_processing = FALSE
    /\ upload_cancelled = FALSE
    /\ confirmation_result = "None"
    /\ closed = FALSE
    /\ smartsheet_client = 1
    /\ smartsheet_sheet = 1
    /\ connector = IdleConnector
    /\ started = 0
    /\ worker = [s \in Sessions |-> IdleWorker]
    /\ dialog = [s \in Sessions |-> "none"]
    /\ sheet_rows = 1..existing
    /\ added = <<>>

InitCommon == InitEngine /\ FileSelected

\* Small inputs, one upload: every setting and table within the bounds.
InitSmall ==
    /\ session_limit = 1
    /\ overwrite_var \in BOOLEAN
    /\ batch_size \in 1..MaxBatch
    /\ max_retries \in 1..MaxRetries
    /\ processed_df \in SmallTables
    /\ existing \in SmallSheets

\* Large inputs, one upload: sheets that take several delete batches, and
\* the example table of 45 rows with batch size 20.
InitLarge ==
    /\ session_limit = 1
    /\ overwrite_var = TRUE
    /\ batch_size = ExampleBatch
    /\ max_retries \in 1..MaxRetries
    /\ processed_df = ExampleTable
    /\ existing \in LargeSheets

\* Several uploads, one after the other or racing: one delete batch and one
\* upload batch with overwrite, MaxRows upload batches without; one attempt
\* per call.
InitMulti ==
    /\ session_limit = MaxSessions
    /\ overwrite_var \in BOOLEAN
    /\ batch_size = 1
    /\ max_retries = 1
    /\ processed_df = [n |-> IF overwrite_var THEN 1 ELSE MaxRows, nocell |-> {}]
    /\ existing = IF overwrite_var THEN 1 ELSE 0

\* The state once a file is selected and the sheet connected (the guards of
\* start_upload_threaded at lines 666-674 pass), with the settings of the UI.
Init == (InitSmall \/ InitLarge \/ InitMulti) /\ InitCommon /\ proc = IdleProc

(* ------------------------ main thread handlers ------------------------ *)

\* start_upload_threaded: returns at once while is_processing; otherwise
\* spawns upload_process in a new thread.
start_upload_threaded ==
    /\ ~closed
    /\ ~is_processing
    /\ excel_file_path # 0
    /\ Connected
    /\ started < session_limit
    /\ started' = started + 1
    /\ worker' = [worker EXCEPT ![started + 1].pc = "l677"]
    /\ UNCHANGED <<shared, closed, inputs, dialog, remote>>

\* What a cancellation request means to a running session.
NoteCancel(w) ==
    [w EXCEPT
       !.cancel_req = IF @ = 0 /\ w.pc \in {"l678", "wait", "sleep", "fetch",
                                            "del_check", "del_call", "up_check",
                                            "up_attempt", "up_call", "post"}
                      THEN 1 ELSE @,
       !.cancel_mid = IF /\ @ = 0
                         /\ w.pc \in {"up_check", "up_attempt", "up_call"}
                         /\ w.batch_num >= 1
                         /\ w.attempt = 0
                      THEN w.batch_num ELSE @,
       \* after a failed attempt the delete loop sleeps and calls again
       \* (pc del_call); the upload loop sleeps and comes back to the check
       \* of line 1049 (pc up_attempt)
       !.cancel_retry = IF @ = "none" /\ w.attempt >= 1 /\ w.pc = "del_call"
                        THEN "del"
                        ELSE IF @ = "none" /\ w.attempt >= 1 /\ w.pc = "up_attempt"
                        THEN "add" ELSE @]

\* cancel_upload: sets the flag only while is_processing.
cancel_upload ==
    /\ ~closed
    /\ is_processing
    /\ upload_cancelled' = TRUE
    /\ confirmation_result' = "False"
    /\ worker' = [s \in Sessions |-> NoteCancel(worker[s])]
    /\ UNCHANGED <<is_processing, closed, inputs, started, dialog, remote>>

\* on_closing: while is_processing (and the user agrees) sets the flag,
\* then destroys the window; otherwise just destroys the window.
on_closing ==
    /\ ~closed
    /\ closed' = TRUE
    /\ upload_cancelled' = (upload_cancelled \/ is_processing)
    /\ worker' = IF is_processing
                 THEN [s \in Sessions |-> NoteCancel(worker[s])]
                 ELSE worker
    /\ UNCHANGED <<is_processing, confirmation_result, inputs, started,
                   dialog, remote>>

\* show_enhanced_confirmation_dialog of session s returns: askyesno gives
\* yes or no (a failure of the dialog counts as no).
show_enhanced_confirmation_dialog(s) ==
    /\ ~closed
    /\ dialog[s] = "open"
    /\ \E result \in {"True", "False"} :
         /\ confirmation_result' = result
         /\ worker' = [worker EXCEPT ![s].own_accept =
                          @ \/ (result = "True" /\ worker[s].pc \in {"wait", "sleep"})]
    /\ dialog' = [dialog EXCEPT ![s] = "answered"]
    /\ UNCHANGED <<is_processing, upload_cancelled, closed, inputs, started, remote>>

(* --------------------------- upload worker ---------------------------- *)

\* upload_process, line 677: self.is_processing = True
l677(s) ==
    /\ worker[s].pc = "l677"
    /\ is_processing' = TRUE
    /\ worker' = [worker EXCEPT ![s].pc = "l678"]
    /\ UNCHANGED <<upload_cancelled, confirmation_result, closed, inputs,
                   started, dialog, remote>>

\* A test of the result of processing that never finds it empty.
NoData_never(df) == FALSE

\* upload_process, line 692: processed_df is None or processed_df.empty
NoData(df) == df.n = 0

\* upload_process, lines 678-701: self.upload_cancelled = False, then
\* processing; an empty result ends the session with a failure, otherwise the
\* confirmation dialog is scheduled on the main thread and the wait begins.
l678(s) ==
    /\ worker[s].pc = "l678"
    /\ upload_cancelled' = FALSE
    /\ IF NoData(processed_df)
       THEN /\ worker' = [worker EXCEPT ![s] =
                  [Emit(Progress(EnterPhase(@, "Processing"), 10), "Failure")
                      EXCEPT !.pc = "finally"]]
            /\ dialog' = dialog
       ELSE /\ worker' = [worker EXCEPT ![s] =
                  [Progress(Progress(EnterPhase(EnterPhase(@, "Processing"),
                                                "AwaitingConfirmation"), 10), 20)
                      EXCEPT !.pc = "wait", !.wait_time = 0]]
            /\ dialog' = [dialog EXCEPT ![s] = "open"]
    /\ UNCHANGED <<is_processing, confirmation_result, closed, inputs,
                   started, remote>>

\* upload_process, lines 719-724 and upload_data_enhanced, lines 990-998:
\* what the worker does between the confirmation and the first DeleteRows
\* or AddRows checkpoint.
\* An upload loop that stops one batch early.
NextUpload_short(w) ==
    IF w.batch_num < TotalBatches(processed_df.n, batch_size) - 1
    THEN [w EXCEPT !.pc = "up_check"]
    ELSE [w EXCEPT !.success = TRUE, !.pc = "post"]

\* upload_data_enhanced, line 1000: for batch_num in range(total_batches);
\* after the last batch, return True (line 1082).
NextUpload(w) ==
    IF w.batch_num < TotalBatches(processed_df.n, batch_size)
    THEN [w EXCEPT !.pc = "up_check"]
    ELSE [w EXCEPT !.success = TRUE, !.pc = "post"]

\* column_map is built from self.smartsheet_sheet.columns (line 998); with
\* smartsheet_sheet None that raises, and the handler of lines 1084-1086
\* logs the failure and returns False.
BeginUpload(w) ==
    IF smartsheet_sheet = 0
    THEN [Emit(Progress(EnterPhase(w, "Uploading"), 40), "Failure")
             EXCEPT !.success = FALSE, !.pc = "post"]
    ELSE NextUpload([Progress(EnterPhase(w, "Uploading"), 40)
                        EXCEPT !.batch_num = 0, !.attempt = 0,
                               !.uploaded_rows = 0,
                               !.column_map = smartsheet_sheet])

BeginClearing(w) ==
    [Progress(EnterPhase(w, "Clearing"), 30)
        EXCEPT !.pc = "fetch", !.attempt = 0]

AfterConfirmation(w) ==
    IF overwrite_var
    THEN BeginClearing([w EXCEPT !.accepted = TRUE])
    ELSE BeginUpload([w EXCEPT !.accepted = TRUE])

\* upload_process, lines 706 and 712-719: the test of the wait loop; when it
\* ends the loop, the decision on confirmation_result.
wait(s) ==
    /\ worker[s].pc = "wait"
    /\ IF confirmation_result = "None" /\ worker[s].wait_time < TimeoutPolls
       THEN /\ worker' = [worker EXCEPT ![s].pc = "sleep"]
            /\ confirmation_result' = confirmation_result
       ELSE IF confirmation_result # "True"
       THEN /\ worker' = [worker EXCEPT ![s] =
                             [Emit(@, "Cancelled")
                                 EXCEPT !.pc = "finally",
                                        !.wait_exit =
                                           IF worker[s].cancel_req > 0 THEN "cancel"
                                           ELSE IF dialog[s] = "answered" THEN "answered"
                                           ELSE IF worker[s].wait_time >= TimeoutPolls
                                           THEN "timeout" ELSE "stale"]]
            /\ confirmation_result' = confirmation_result
       ELSE /\ worker' = [worker EXCEPT ![s] =
                             AfterConfirmation([@ EXCEPT !.wait_exit = "accept"])]
            /\ confirmation_result' = "None"
    /\ UNCHANGED <<is_processing, upload_cancelled, closed, inputs, started,
                   dialog, remote>>

\* A poll that does not advance the clock of the wait.
Poll_stuck(wait_time) == wait_time

\* upload_process, line 708: wait_time += 0.1, in polls
Poll(wait_time) == wait_time + 1

\* upload_process, lines 707-710: one poll of the wait, then the
\* cancellation check.
sleep(s) ==
    /\ worker[s].pc = "sleep"
    /\ worker' = [worker EXCEPT ![s] =
          [Checkpoint(@) EXCEPT !.wait_time = Poll(@),
                                !.pc = IF upload_cancelled THEN "finally" ELSE "wait"]]
    /\ UNCHANGED <<shared, closed, inputs, started, dialog, remote>>

\* A handler that logs the error of clearing and lets the sync go on.
ClearRaises_swallow(w) ==
    BeginUpload([Emit(w, "Failure") EXCEPT !.clear_failed = TRUE])

\* clear_smartsheet_data_enhanced raises: its handler logs an error and
\* re-raises, and upload_process logs "Upload process failed".
ClearRaises(w) ==
    [Emit(Emit(w, "Failure"), "Failure")
        EXCEPT !.clear_failed = TRUE, !.pc = "finally"]

\* clear_smartsheet_data_enhanced, line 957: for batch_num in
\* range(total_batches); after the last batch clearing returns (line 981)
\* and upload_process goes on to upload_data_enhanced.
NextDelete(w) ==
    IF w.batch_num < w.del_batches
    THEN [w EXCEPT !.pc = "del_check"]
    ELSE BeginUpload([w EXCEPT !.clear_done = TRUE])

\* clear_smartsheet_data_enhanced, lines 932-955: get_sheet with retries,
\* then the row ids and the number of batches.
fetch(s) ==
    /\ worker[s].pc = "fetch"
    /\ \E ok \in (IF Connected THEN BOOLEAN ELSE {FALSE}) :
         worker' = [worker EXCEPT ![s] =
            IF ok
            THEN IF RowIdsOf(smartsheet_sheet) = <<>>
                 THEN BeginUpload([@ EXCEPT !.row_ids = <<>>,
                                            !.fetched = smartsheet_sheet,
                                            !.del_batches = 0,
                                            !.clear_done = TRUE])
                 ELSE NextDelete([@ EXCEPT
                                !.row_ids = RowIdsOf(smartsheet_sheet),
                                !.fetched = smartsheet_sheet,
                                !.del_batches =
                                    TotalBatches(Len(RowIdsOf(smartsheet_sheet)),
                                                 DeleteBatchSize),
                                !.batch_num = 0])
            ELSE IF @.attempt = max_retries - 1
                 THEN ClearRaises(@)
                 ELSE [@ EXCEPT !.attempt = @ + 1]]
    /\ UNCHANGED <<shared, closed, inputs, started, dialog, remote>>

\* clear_smartsheet_data_enhanced, lines 957-963: the cancellation check
\* before a delete batch; on cancellation clearing returns and
\* upload_process goes on to upload_data_enhanced.
del_check(s) ==
    /\ worker[s].pc = "del_check"
    /\ worker' = [worker EXCEPT ![s] =
          IF upload_cancelled
          THEN BeginUpload(Checkpoint(@))
          ELSE [Checkpoint(@) EXCEPT !.attempt = 0, !.pc = "del_call"]]
    /\ UNCHANGED <<shared, closed, inputs, started, dialog, remote>>

\* batch_ids = row_ids[start_idx:end_idx]
BatchIds(w) ==
    SubSeq(w.row_ids,
           StartIdx(w.batch_num, DeleteBatchSize) + 1,
           EndIdx(w.batch_num, DeleteBatchSize, Len(w.row_ids)))

\* What line 968 can do: with a field at None the expression raises and no
\* call is made; a call on a sheet that does not hold the rows of batch_ids
\* fails; otherwise the call returns or fails.
DeleteResults(w) ==
    IF ~Connected THEN {"error"}
    ELSE IF smartsheet_sheet # w.fetched THEN CallResults \ {"ok"}
    ELSE CallResults

\* clear_smartsheet_data_enhanced, line 974: the sleep after a failed
\* attempt: time.sleep(retry_delay)
DeleteBackoff(attempt) == RetryDelay

\* clear_smartsheet_data_enhanced, lines 965-981: one delete_rows call of
\* the retry loop, and what follows its success.
del_call(s) ==
    /\ worker[s].pc = "del_call"
    /\ \E r \in DeleteResults(worker[s]) :
         LET ok   == r = "ok"
             w    == IF Connected
                     THEN NoteTry(NoteCall(worker[s], "del"), "del", r)
                     ELSE worker[s]
             lo   == StartIdx(w.batch_num, DeleteBatchSize)
             hi   == EndIdx(w.batch_num, DeleteBatchSize, Len(w.row_ids))
             wc   == [w EXCEPT !.del_max = IF Len(BatchIds(w)) > @
                                           THEN Len(BatchIds(w)) ELSE @]
             wok  == [wc EXCEPT !.del_ok = Append(@, <<lo, hi>>),
                                !.batch_num = @ + 1]
         IN  IF ok
             THEN /\ sheet_rows' = sheet_rows \ SeqRange(BatchIds(w))
                  /\ worker' = [worker EXCEPT ![s] = NextDelete(wok)]
             ELSE /\ sheet_rows' = sheet_rows
                  /\ worker' = [worker EXCEPT ![s] =
                        IF wc.attempt = max_retries - 1
                        THEN ClearRaises(wc)
                        ELSE [wc EXCEPT !.attempt = @ + 1,
                                        !.backoff = DeleteBackoff(wc.attempt)]]
    /\ UNCHANGED <<shared, closed, inputs, started, dialog, existing, added>>

\* upload_data_enhanced, lines 1000-1043: the cancellation check before a
\* batch, then the rows of the batch.
up_check(s) ==
    /\ worker[s].pc = "up_check"
    /\ worker' = [worker EXCEPT ![s] =
          IF upload_cancelled
          THEN [Emit(Checkpoint(@), "Cancelled")
                   EXCEPT !.success = FALSE, !.pc = "post"]
          ELSE [Checkpoint(@) EXCEPT !.attempt = 0, !.pc = "up_attempt"]]
    /\ UNCHANGED <<shared, closed, inputs, started, dialog, remote>>

\* upload_data_enhanced, lines 1047-1050: the cancellation check that opens
\* each attempt.
up_attempt(s) ==
    /\ worker[s].pc = "up_attempt"
    /\ worker' = [worker EXCEPT ![s] =
          IF upload_cancelled
          THEN [Checkpoint(@) EXCEPT !.success = FALSE, !.pc = "post"]
          ELSE [Checkpoint(@) EXCEPT !.pc = "up_call"]]
    /\ UNCHANGED <<shared, closed, inputs, started, dialog, remote>>

\* A retry test that grants one attempt more.
RetryLeft_more(attempt) == attempt < max_retries

\* upload_data_enhanced, lines 1057 and 1063 (the handler of a timeout and
\* the handler of any other error): attempt < max_retries - 1
RetryLeft(attempt) == attempt < max_retries - 1

\* upload_data_enhanced, lines 1059 and 1065: the sleep after a failed
\* attempt: time.sleep(retry_delay * (attempt + 1))
UploadBackoff(attempt) == RetryDelay * (attempt + 1)

\* What the remote service did with an add_rows call that ended with r for
\* the worker: a call that returned was applied, a call that raised an error
\* was not; a call that timed out (line 1056: the response did not arrive
\* in time) was applied or not, the worker cannot tell.
Applied(r) ==
    CASE r = "ok"      -> {TRUE}
      [] r = "timeout" -> BOOLEAN
      [] OTHER         -> {FALSE}

\* upload_data_enhanced, lines 1052-1086: one add_rows call, and what
\* follows its success (progress, next batch or return True) or its failure
\* (retry, or the raise that the handler turns into return False).
up_call(s) ==
    /\ worker[s].pc = "up_call"
    /\ \E r \in (IF Connected THEN CallResults ELSE {"error"}) :
      \E applied \in Applied(r) :
         LET ok   == r = "ok"
             w    == IF Connected
                     THEN [NoteTry(NoteCall(worker[s], "add"), "add", r)
                             EXCEPT !.add_tried = IF worker[s].batch_num + 1 > @
                                                  THEN worker[s].batch_num + 1 ELSE @,
                                    !.late = IF applied /\ ~ok
                                             THEN @ \cup {worker[s].batch_num + 1}
                                             ELSE @]
                     ELSE worker[s]
             rows == RowsToAdd(w.batch_num)
             up   == w.uploaded_rows + Len(rows)
             wok  == [Progress(w, ProgressPct(up, processed_df.n))
                         EXCEPT !.uploaded_rows = up,
                                !.add_ok = Append(@,
                                    <<StartIdx(w.batch_num, batch_size),
                                      EndIdx(w.batch_num, batch_size, processed_df.n),
                                      Len(rows)>>),
                                !.batch_num = @ + 1]
         IN  /\ IF applied /\ smartsheet_sheet = 1
                THEN /\ sheet_rows' = sheet_rows \cup NewIds(Len(rows))
                     /\ added' = added
                           \o [i \in 1..Len(rows) |-> <<s, rows[i]>>]
                ELSE UNCHANGED <<sheet_rows, added>>
             /\ IF ok
                THEN worker' = [worker EXCEPT ![s] = NextUpload(wok)]
                ELSE worker' = [worker EXCEPT ![s] =
                        IF RetryLeft(w.attempt)
                        THEN [w EXCEPT !.attempt = @ + 1, !.pc = "up_attempt",
                                       !.backoff = UploadBackoff(w.attempt)]
                        ELSE [Emit(w, "Failure")
                                 EXCEPT !.exhausted = w.batch_num + 1,
                                        !.success = FALSE, !.pc = "post"]]
    /\ UNCHANGED <<shared, closed, inputs, started, dialog, existing>>

\* The row count of the success report (lines 729 and 733): total_rows.
ReportedRows(w) == processed_df.n

\* upload_process, lines 727-740: the final report.
post(s) ==
    /\ worker[s].pc = "post"
    /\ worker' = [worker EXCEPT ![s] =
          [ (IF @.success /\ ~upload_cancelled
             THEN [Progress(Emit(Checkpoint(@), "Success"), 100)
                      EXCEPT !.reported = ReportedRows(@)]
             ELSE IF upload_cancelled
             THEN Emit(Checkpoint(@), "Cancelled")
             ELSE Emit(Checkpoint(@), "Failure"))
            EXCEPT !.pc = "finally" ]]
    /\ UNCHANGED <<shared, closed, inputs, started, dialog, remote>>

\* upload_process, lines 746-748: self.is_processing = False and the
\* upload_finished event.
finally(s) ==
    /\ worker[s].pc = "finally"
    /\ is_processing' = FALSE
    /\ worker' = [worker EXCEPT ![s] =
          [EnterPhase(@, "Finished") EXCEPT !.finished = @ + 1, !.pc = "done"]]
    /\ UNCHANGED <<upload_cancelled, confirmation_result, closed, inputs,
                   started, dialog, remote>>

upload_process(s) ==
    \/ l677(s)
    \/ l678(s)
    \/ wait(s)
    \/ sleep(s)
    \/ fetch(s)
    \/ del_check(s)
    \/ del_call(s)
    \/ up_check(s)
    \/ up_attempt(s)
    \/ up_call(s)
    \/ post(s)
    \/ finally(s)

Next ==
    \/ start_upload_threaded
    \/ cancel_upload
    \/ on_closing
    \/ \E s \in Sessions : show_enhanced_confirmation_dialog(s)
    \/ \E s \in Sessions : upload_process(s)

Spec == Init /\ [][Next]_vars

\* The runs in which the user starts one upload.
InitOne == (InitSmall \/ InitLarge) /\ InitCommon /\ proc = IdleProc

SpecOne == InitOne /\ [][Next]_vars

\* One upload with the retry setting of __init__: a sheet that takes two
\* delete batches, a table that takes two upload batches.
InitRetry ==
    /\ session_limit = 1
    /\ overwrite_var = TRUE
    /\ batch_size = 1
    /\ max_retries = DefaultRetries
    /\ processed_df = [n |-> 2, nocell |-> {}]
    /\ existing = DeleteBatchSize + 1
    /\ InitCommon
    /\ proc = IdleProc

SpecRetry == InitRetry /\ [][Next]_vars

(* ----------------------------- connecting ---------------------------- *)

\* connect_smartsheet_threaded: the Connect button stays enabled during an
\* upload; with a token and a URL entered a connect thread is spawned.  The
\* URL names sheet 1 or sheet 2, or no sheet id can be extracted from it (0).
connect_smartsheet_threaded ==
    /\ ~closed
    /\ connector.pc \in {"idle", "done"}
    /\ connector.runs < MaxConnects
    /\ \E target \in 0..2 :
         connector' = [pc |-> "l584", runs |-> connector.runs + 1,
                       target |-> target]
    /\ UNCHANGED <<shared, closed, settings, smartsheet_client,
                   smartsheet_sheet, started, worker, dialog, remote>>

\* connect_smartsheet, lines 584-601: a new client replaces the old one;
\* without a sheet id the thread returns.
l584 ==
    /\ connector.pc = "l584"
    /\ smartsheet_client' = connector.runs + 1
    /\ connector' = [connector EXCEPT
                        !.pc = IF connector.target = 0 THEN "done" ELSE "l605"]
    /\ UNCHANGED <<shared, closed, settings, smartsheet_sheet, started,
                   worker, dialog, remote>>

\* connect_smartsheet, lines 605-619: get_sheet returns and the sheet
\* replaces the old one, or it raises.
l605 ==
    /\ connector.pc = "l605"
    /\ \E ok \in BOOLEAN :
         IF ok
         THEN /\ smartsheet_sheet' = connector.target
              /\ connector' = [connector EXCEPT !.pc = "done"]
         ELSE /\ smartsheet_sheet' = smartsheet_sheet
              /\ connector' = [connector EXCEPT !.pc = "l620"]
    /\ UNCHANGED <<shared, closed, settings, smartsheet_client, started,
                   worker, dialog, remote>>

\* connect_smartsheet, line 620: self.smartsheet_client = None
l620 ==
    /\ connector.pc = "l620"
    /\ smartsheet_client' = 0
    /\ connector' = [connector EXCEPT !.pc = "l621"]
    /\ UNCHANGED <<shared, closed, settings, smartsheet_sheet, started,
                   worker, dialog, remote>>

\* connect_smartsheet, line 621: self.smartsheet_sheet = None
l621 ==
    /\ connector.pc = "l621"
    /\ smartsheet_sheet' = 0
    /\ connector' = [connector EXCEPT !.pc = "done"]
    /\ UNCHANGED <<shared, closed, settings, smartsheet_client, started,
                   worker, dialog, remote>>

connect_smartsheet == l584 \/ l605 \/ l620 \/ l621

NextConnect ==
    \/ Next
    \/ connect_smartsheet_threaded
    \/ connect_smartsheet

\* One upload, of two upload batches, in append mode or on a sheet of one
\* row to clear, while the user may connect again.
InitConnect ==
    /\ session_limit = 1
    /\ overwrite_var \in BOOLEAN
    /\ batch_size = 1
    /\ max_retries = 1
    /\ processed_df = [n |-> 2, nocell |-> {}]
    /\ existing = 1
    /\ InitCommon
    /\ proc = IdleProc

SpecConnect == InitConnect /\ [][NextConnect]_vars

\* A started thread keeps running: the scheduler gives every worker its
\* next step, time.sleep returns, and each remote call returns or raises.
\* The user owes nothing: no dialog need be answered, no button pressed.
Fairness == \A s \in Sessions : WF_vars(upload_process(s))

\* One upload on each path: an empty table or one of two upload batches,
\* append or overwrite of a sheet of one row, each retry setting.
InitLive ==
    /\ session_limit = 1
    /\ overwrite_var \in BOOLEAN
    /\ batch_size = 1
    /\ max_retries \in 1..MaxRetries
    /\ processed_df \in {[n |-> n, nocell |-> {}] : n \in {0, 2}}
    /\ existing = 1
    /\ InitCommon
    /\ proc = IdleProc

SpecLive == InitLive /\ [][Next]_vars /\ Fairness

(* ------------------------- processing functions ----------------------- *)

\* All the state of the sync engine: the processing functions leave it alone.
sync == <<is_processing, upload_cancelled, confirmation_result, closed,
          overwrite_var, batch_size, max_retries, processed_df,
          session_limit, started, worker, dialog, existing, sheet_rows, added,
          smartsheet_client, smartsheet_sheet, connector, selection>>

\* Frames of 1..MaxTableRows rows.
RowCounts == 1..MaxTableRows

\* Header labels: empty, blank, padded, plain, with an underscore.
Labels == {"", " ", "4", " 4", "SOH", "SOH ", "4 - SOH", "_x", "Stock Qty"}

\* Cells of a quantity column as a file gives them.
QuantityTexts == {"1,200", "50", "abc", "", "1.5", "-5", "$3", "0.00001"}

\* Frames for clean_numeric_data: a quantity column (numeric by its label)
\* and a text column.
CleanFrames ==
    {Frame(<<label, "Notes">>,
           <<[r \in 1..n |-> StrV(q[r])], [r \in 1..n |-> StrV("n/a, 1")]>>, n) :
        label \in {"SOH", "Stock Qty"}, n \in RowCounts, q \in [RowCounts -> QuantityTexts]}

\* The canonical header, and headers that lack canonical columns.
CanonicalHeader == Targets \o <<"Available">>
MapHeaders ==
    {CanonicalHeader, <<"Branch">>, <<"Branch", "ProductCode">>, <<"Notes">>,
     <<"Stock on Hand", "Allocated", "Product Code">>,
     <<"ProductCode", "Description", "Warehouse">>,
     <<"1_ProductCode", "Branch", "Branch">>}

\* Frames for apply_cin7_column_mapping: the cell of column c and row r is
\* the prefix followed by c and r, so that no two cells are equal.
MapFrames ==
    {Frame(h, [c \in 1..Len(h) |->
                 [r \in 1..n |-> StrV(prefix \o IntStr(c) \o IntStr(r))]], n) :
        h \in MapHeaders, n \in RowCounts, prefix \in {"", "A", "1,"}}

\* Files for process_cin7_excel_data: a key column and two quantity columns.
RunHeaders ==
    {<<"ProductCode", "SOH", "Open Sales">>,
     <<"Product Code", "Stock on Hand", "Allocated">>,
     <<"Item", "SOH", "Open Sales">>,
     <<"ProductCode", "Branch", "Notes">>}
RunKeys == {"A1", "", "nan", "Total", "grand total", "TOTAL-100", "ProductCode"}
RunQuantities == {<<"1,200", "50">>, <<"abc", "5">>, <<"1.5", "0">>}
RunRows == {<<k, q[1], q[2]>> : k \in RunKeys, q \in RunQuantities}
KeyRows == {<<k, "7", "2">> : k \in RunKeys}
RunOuter == <<"1", "4", "6">>

\* One row with any key and any quantities, or several rows with any keys.
RunTables ==
    {<<x>> : x \in RunRows}
    \cup UNION {[1..n -> KeyRows] : n \in 2..MaxTableRows}

\* df_multi is used in verbatim mode only.
RunFiles(verbatim) ==
    {File(Frame(h, [c \in 1..3 |-> [r \in 1..Len(rows) |-> StrV(rows[r][c])]],
                Len(rows)), outer) :
        h \in RunHeaders, rows \in RunTables,
        outer \in IF verbatim THEN {<<>>, RunOuter} ELSE {<<>>}}

\* A file whose two-level header flattens to one label for two columns:
\* the outer and the inner label of each are equal up to blanks.
DupHeader == <<"ProductCode", "Branch", "Branch ">>
DupOuter == <<"1", "Branch ", "Branch">>
DupFiles(verbatim) ==
    {File(Frame(DupHeader, [c \in 1..3 |-> <<StrV(row[c])>>], 1), outer) :
        row \in RunRows,
        outer \in IF verbatim THEN {<<>>, DupOuter} ELSE {<<>>}}

\* The column titles of the remote sheet (the keys of column_map).
SheetColumns == SeqRange(CanonicalHeader)

\* The inputs of the processing functions.
ProcInputs ==
    {[IdleProc EXCEPT !.fam = "hdr", !.c0 = c0, !.c1 = c1] :
        c0 \in Labels, c1 \in Labels}
    \cup {[IdleProc EXCEPT !.fam = "clean", !.file = File(df, <<>>)] :
        df \in CleanFrames}
    \cup {[IdleProc EXCEPT !.fam = "map", !.file = File(df, <<>>)] :
        df \in MapFrames}
    \cup UNION {{[IdleProc EXCEPT !.fam = "run", !.file = f, !.verbatim = v,
                                  !.mapping = m] :
                     f \in RunFiles(v) \cup DupFiles(v), m \in BOOLEAN} :
                 v \in BOOLEAN}

\* No upload is started while the functions are exercised.
InitProc ==
    /\ session_limit = 0
    /\ overwrite_var = FALSE
    /\ batch_size = 1
    /\ max_retries = 1
    /\ processed_df = [n |-> 0, nocell |-> {}]
    /\ existing = 0
    /\ InitCommon
    /\ proc \in ProcInputs

\* process_cin7_excel_data, lines 779-788, on one column of the header.
flatten_headers ==
    /\ proc.fam = "hdr" /\ proc.stage = 0
    /\ proc' = [proc EXCEPT !.flat = new_columns(proc.c0, proc.c1), !.stage = 1]
    /\ UNCHANGED sync

\* clean_numeric_data is called on the file's frame, then on its own output.
call_clean_numeric_data ==
    /\ proc.fam = "clean" /\ proc.stage < 2
    /\ proc' = IF proc.stage = 0
               THEN [proc EXCEPT !.res.out = clean_numeric_data(proc.file.df),
                                 !.stage = 1]
               ELSE [proc EXCEPT !.out2 = clean_numeric_data(proc.res.out),
                                 !.stage = 2]
    /\ UNCHANGED sync

\* apply_cin7_column_mapping is called on the file's frame.
call_apply_cin7_column_mapping ==
    /\ proc.fam = "map" /\ proc.stage = 0
    /\ LET m == apply_cin7_column_mapping(proc.file.df)
       IN  proc' = [proc EXCEPT !.res.out = m.df, !.res.log = m.log,
                                !.res.map_raised = m.raised, !.stage = 1]
    /\ UNCHANGED sync

\* preview_data_threaded.preview_data: process_cin7_excel_data() on the
\* selected file with the toggles of the UI.
preview_data ==
    /\ proc.fam = "run" /\ proc.stage = 0
    /\ proc' = [proc EXCEPT
                  !.res = process_cin7_excel_data(proc.file, proc.verbatim,
                                                  proc.mapping),
                  !.stage = 1]
    /\ UNCHANGED sync

\* float(s) of upload_data_enhanced, line 1030: a decimal literal with an
\* optional exponent; NaN stands for ValueError.
ParseFloat(s) ==
    LET es == {i \in 1..Len(s) : Char(s, i) \in {"e", "E"}}
    IN  IF es = {} THEN ParseNumber(s)
        ELSE IF Cardinality(es) > 1 THEN NaN
        ELSE LET i    == CHOOSE j \in es : TRUE
                 m    == ParseNumber(SubSeq(s, 1, i - 1))
                 x    == SubSeq(s, i + 1, Len(s))
                 neg  == x # "" /\ Char(x, 1) = "-"
                 xd   == IF x # "" /\ Char(x, 1) \in {"-", "+"} THEN Tail(x) ELSE x
             IN  IF ~IsNum(m) \/ ~IsDigits(xd) THEN NaN
                 ELSE IF neg THEN FloatV(m.n \div Pow10(DigitsVal(xd)))
                 ELSE FloatV(m.n * Pow10(DigitsVal(xd)))

\* upload_data_enhanced, line 1016: the value gets a cell.
HasCell(col_name, v) ==
    /\ col_name \in SheetColumns
    /\ Strip(AsStr(v)) # ""
    /\ AsStr(v) # "nan"

\* upload_data_enhanced, lines 1020-1038: cell.value
CellValue(col_name, v, cols) ==
    LET text          == Strip(AsStr(v))
        numeric_value == ParseFloat(text)
    IN  IF col_name \in all_numeric_columns(cols) /\ IsNum(numeric_value)
        THEN IF numeric_value.n % Scale = 0
             THEN IntV(numeric_value.n)
             ELSE FloatV(numeric_value.n)
        ELSE StrV(text)

\* upload_data_enhanced, lines 1012-1040: the remote row of table row r;
\* src is the table row it was made from, c the table column of a cell.
new_row(df, r) ==
    LET with == SelectSeq([c \in 1..Len(df.cols) |-> c],
                          LAMBDA c : HasCell(df.cols[c], df.data[c][r]))
    IN  [src   |-> r,
         cells |-> [k \in 1..Len(with) |->
                      [c      |-> with[k],
                       column |-> df.cols[with[k]],
                       value  |-> CellValue(df.cols[with[k]],
                                            df.data[with[k]][r], df.cols)]]]

\* upload_data_enhanced, lines 1005-1043: rows_to_add of one batch.
rows_to_add(df, batch_num) ==
    LET start_idx == StartIdx(batch_num, batch_size)
        end_idx   == EndIdx(batch_num, batch_size, df.n)
    IN  SelectSeq([i \in 1..(end_idx - start_idx) |-> new_row(df, start_idx + i)],
                  LAMBDA row : row.cells # <<>>)

\* upload_data_enhanced on the table processing returned (not None, not
\* empty: line 692): the rows of every batch.
prepare_rows ==
    /\ proc.fam = "run" /\ proc.stage = 1
    /\ ~proc.res.none /\ proc.res.out.n > 0
    /\ proc' = [proc EXCEPT
                  !.batches =
                     [k \in 1..TotalBatches(proc.res.out.n, batch_size) |->
                         rows_to_add(proc.res.out, k - 1)],
                  !.stage = 2]
    /\ UNCHANGED sync

NextProc ==
    \/ flatten_headers
    \/ call_clean_numeric_data
    \/ call_apply_cin7_column_mapping
    \/ preview_data
    \/ prepare_rows

SpecProc == InitProc /\ [][NextProc]_vars

(* --------------------------- selecting a file ------------------------- *)

\* The files the user can select.
Paths == {1, 2}

\* What reading a file gives (lines 506-517 and 760-769): a workbook with
\* a two-level header, read both ways, and a .csv file, for which df_multi
\* is None.
ReadFile(path) ==
    LET header == IF path = 1
                  THEN <<"ProductCode", "SOH", "Open Sales">>
                  ELSE <<"Product Code", "Stock on Hand", "Allocated">>
        row    == IF path = 1 THEN <<"A1", "1,200", "50">>
                  ELSE <<"B2", "7", "2">>
    IN  File(Frame(header, [c \in 1..3 |-> <<StrV(row[c])>>], 1),
             IF path = 1 THEN RunOuter ELSE <<>>)

\* browse_file_threaded.browse_file, lines 473-484: the user picks a file;
\* the analysis is scheduled for later and file_analysis is left as it is.
browse_file ==
    /\ \E file_path \in Paths : excel_file_path' = file_path
    /\ UNCHANGED <<shared, closed, upload_config, proc, file_analysis,
                   connection, started, worker, dialog, remote>>

\* analyze_file_threaded.analyze_file (scheduled by browse_file, or the
\* Analyze button): reads the selected file and stores the tables; when the
\* reading raises, the handler of line 554 logs and file_analysis stays.
analyze_file ==
    /\ excel_file_path # 0
    /\ \E ok \in BOOLEAN :
         file_analysis' = IF ok
                          THEN [has |-> TRUE, tables |-> ReadFile(excel_file_path)]
                          ELSE file_analysis
    /\ UNCHANGED <<shared, closed, upload_config, proc, excel_file_path,
                   connection, started, worker, dialog, remote>>

\* process_cin7_excel_data, lines 756-769: df and df_multi are the tables
\* of file_analysis when the attribute exists, otherwise the selected file
\* is read now.
LoadTables ==
    IF file_analysis.has THEN file_analysis.tables
    ELSE ReadFile(excel_file_path)

\* process_cin7_excel_data() as preview_data (line 1097) and upload_process
\* (line 690) call it, with the toggles of the UI: on the tables of
\* file_analysis when the attribute exists (lines 756-758), otherwise on
\* the selected file read now (lines 760-769); when that reading raises,
\* the handler of lines 836-838 logs the error and the result is None.
call_process_cin7_excel_data ==
    /\ proc.fam = "file" /\ proc.stage < MaxRuns
    /\ excel_file_path # 0
    /\ \E verbatim \in BOOLEAN, mapping \in BOOLEAN,
          ok \in (IF file_analysis.has THEN {TRUE} ELSE BOOLEAN) :
         proc' = [proc EXCEPT
                    !.file = LoadTables,
                    !.verbatim = verbatim,
                    !.mapping = mapping,
                    !.res = IF ok
                            THEN process_cin7_excel_data(LoadTables, verbatim,
                                                         mapping)
                            ELSE [NoResult EXCEPT !.none = TRUE,
                                                  !.log = {Event("ERROR", "")}],
                    !.stage = @ + 1,
                    !.selected = excel_file_path,
                    !.cached = file_analysis.has,
                    !.read_ok = ok]
    /\ file_analysis' = IF file_analysis.has
                        THEN [file_analysis EXCEPT !.tables = proc'.res.stored]
                        ELSE file_analysis
    /\ UNCHANGED <<shared, closed, upload_config, excel_file_path,
                   connection, started, worker, dialog, remote>>

NextFile ==
    \/ browse_file
    \/ analyze_file
    \/ call_process_cin7_excel_data

\* The state after construction: no file selected, nothing analysed.
InitFile ==
    /\ session_limit = 0
    /\ overwrite_var = FALSE
    /\ batch_size = 1
    /\ max_retries = 1
    /\ processed_df = [n |-> 0, nocell |-> {}]
    /\ existing = 0
    /\ InitEngine
    /\ excel_file_path = 0
    /\ file_analysis = NoAnalysis
    /\ proc = [IdleProc EXCEPT !.fam = "file"]

SpecFile == InitFile /\ [][NextFile]_vars

(* ------------------------------ claims -------------------------------- *)

Active(s) == worker[s].pc \notin {"idle", "done"}

\* The session has left the confirmation wait.
PastWait(s) ==
    worker[s].pc \notin {"idle", "l677", "l678", "wait", "sleep"}

Kinds(w) == SeqRange(w.outcomes)

\* The rows session s appended are all in the remote sheet.
OwnRowsPresent(s) ==
    \A j \in 1..Len(added) : added[j][1] = s => (existing + j) \in sheet_rows

\* ceil(n / d) by its definition: the least k with k * d >= n.
CeilDiv(n, d) == CHOOSE k \in 0..n : k * d >= n /\ \A m \in 0..(k - 1) : m * d < n

\* C1: a session whose own prompt was not accepted during its wait (no
\* answer within the bound, a decline, or a cancellation seen in the wait)
\* makes no DeleteRows and no AddRows call.
C1_DeclinedMakesNoCall ==
    \A s \in Sessions :
        (PastWait(s) /\ ~worker[s].own_accept) => worker[s].ops = <<>>

\* C2: at most one upload worker is active at any time.
C2_OneWorker ==
    Cardinality({s \in Sessions : Active(s)}) <= 1

\* C3: when cancellation is requested after batch i succeeded and before
\* batch i+1 is submitted, no AddRows call is made for a batch after i, the
\* session reports Cancelled and nothing else, and its rows stay in the
\* remote sheet.
C3_CancelBetweenBatches ==
    \A s \in Sessions :
        worker[s].cancel_mid > 0 =>
            /\ worker[s].add_tried <= worker[s].cancel_mid
            /\ (worker[s].pc = "done" => Kinds(worker[s]) = {"Cancelled"})
            /\ (worker[s].pc # "done" => OwnRowsPresent(s))

\* C4: when the AddRows retries of a batch run out, the session reports
\* Failure and nothing else, makes no further AddRows or DeleteRows call,
\* and the rows of its earlier batches stay in the remote sheet.
C4_RetryExhaustion ==
    \A s \in Sessions :
        worker[s].exhausted > 0 =>
            /\ (worker[s].pc = "done" => Kinds(worker[s]) = {"Failure"})
            /\ ~worker[s].after_exh
            /\ (worker[s].pc # "done" => OwnRowsPresent(s))

\* C5: no DeleteRows call carries more than 400 ids; once clearing has run
\* to its end on N fetched ids, each of the N ids went to exactly one
\* successful DeleteRows call and is gone from the sheet, and the batches
\* reported and executed number ceil(N/400) (none when N = 0).
C5_ClearingDeletesAll ==
    \A s \in Sessions :
        /\ worker[s].del_max <= DeleteBatchSize
        /\ worker[s].clear_done =>
             LET N  == Len(worker[s].row_ids)
                 ok == worker[s].del_ok
             IN  /\ \A i \in 1..N :
                       Cardinality({j \in 1..Len(ok) :
                                      ok[j][1] < i /\ i <= ok[j][2]}) = 1
                 /\ SeqRange(worker[s].row_ids) \cap sheet_rows = {}
                 /\ Len(ok) = CeilDiv(N, DeleteBatchSize)
                 /\ worker[s].del_batches = CeilDiv(N, DeleteBatchSize)

C5_Witness ==
    \E s \in Sessions :
        /\ worker[s].clear_done
        /\ Len(worker[s].row_ids) = 2 * DeleteBatchSize + 1
        /\ Len(worker[s].del_ok) = 3

\* C6: the successful upload batches are consecutive slices of the table,
\* each of batch_size rows except possibly the last one, ceil(N/b) of them
\* when the upload is complete; a progress event of 100 is emitted only
\* after the last of them succeeded.
C6_UploadBatching ==
    \A s \in Sessions :
        LET ok == worker[s].add_ok
            n  == processed_df.n
            k  == CeilDiv(n, batch_size)
        IN  /\ Len(ok) <= k
            /\ \A j \in 1..Len(ok) :
                  /\ ok[j][1] = (IF j = 1 THEN 0 ELSE ok[j - 1][2])
                  /\ ok[j][2] - ok[j][1] >= 1
                  /\ ok[j][2] - ok[j][1] <= batch_size
                  /\ (j < k => ok[j][2] - ok[j][1] = batch_size)
                  /\ (j = k => ok[j][2] = n)
            /\ (worker[s].pct = 100 => Len(ok) = k)

C6_Witness ==
    \E s \in Sessions :
        /\ processed_df.n = 45
        /\ batch_size = 20
        /\ worker[s].pct = 100
        /\ worker[s].add_ok = <<<<0, 20, 20>>, <<20, 40, 20>>, <<40, 45, 5>>>>

PhaseRank(ph) ==
    CASE ph = "Processing" -> 1
      [] ph = "AwaitingConfirmation" -> 2
      [] ph = "Clearing" -> 3
      [] ph = "Uploading" -> 4
      [] ph = "Finished" -> 5

\* C7: a session enters its phases in the order Processing,
\* AwaitingConfirmation, Clearing, Uploading, Finished; it enters Clearing
\* exactly when overwrite is set and the confirmation was accepted; it
\* makes no AddRows call before a DeleteRows call; and once it has seen the
\* cancellation flag set it makes no DeleteRows or AddRows call.
C7_PhaseOrder ==
    \A s \in Sessions :
        LET w == worker[s]
        IN  /\ \A i \in 1..Len(w.phases), j \in 1..Len(w.phases) :
                  i < j => PhaseRank(w.phases[i]) < PhaseRank(w.phases[j])
            /\ ("Clearing" \in SeqRange(w.phases)) <=> (overwrite_var /\ w.accepted)
            /\ w.ops \in {<<>>, <<"del">>, <<"add">>, <<"del", "add">>}
            /\ ~w.after_cancel

\* C8: a session that has put upload_finished has reported exactly one kind
\* of outcome.
C8_OneOutcome ==
    \A s \in Sessions :
        worker[s].pc = "done" => Cardinality(Kinds(worker[s])) = 1

RECURSIVE SubmittedRows(_)
\* Remote rows in the successful AddRows calls listed in ok.
SubmittedRows(ok) ==
    IF ok = <<>> THEN 0 ELSE ok[1][3] + SubmittedRows(Tail(ok))

\* C9: the row count of a success report is the number of remote rows the
\* session submitted in its successful AddRows calls.
C9_ReportedRows ==
    \A s \in Sessions :
        "Success" \in Kinds(worker[s]) =>
            worker[s].reported = SubmittedRows(worker[s].add_ok)

\* C10: after a cancellation requested while the session runs, the session
\* makes no DeleteRows or AddRows call once it has passed a checkpoint, and
\* it does not report Success.
C10_CancelNotLost ==
    \A s \in Sessions :
        worker[s].cancel_req > 0 =>
            /\ ~worker[s].lost_call
            /\ "Success" \notin Kinds(worker[s])

\* C11: once cancellation is requested while a delete batch or an upload
\* batch waits for its retry, no further attempt of that batch is issued
\* and the session ends Cancelled, not Failure.
C11_CancelBeatsRetry ==
    \A s \in Sessions :
        worker[s].cancel_retry # "none" =>
            /\ ~worker[s].retry_after
            /\ (worker[s].pc = "done" => Kinds(worker[s]) = {"Cancelled"})

\* C12: when the fetch of the row list or the DeleteRows call of a batch
\* fails on all max_retries attempts, the session makes no further
\* DeleteRows call and no AddRows call at all, and reports Failure and
\* nothing else.
C12_ClearFailureAborts ==
    \A s \in Sessions :
        worker[s].clear_failed =>
            /\ ~worker[s].after_clear_fail
            /\ "add" \notin SeqRange(worker[s].ops)
            /\ SeqRange(worker[s].add_ok) = {}
            /\ worker[s].pc \in {"finally", "done"}
            /\ Kinds(worker[s]) = {"Failure"}

\* The DeleteRows retries of the second batch ran out after the first batch
\* was deleted, and the session has ended.
C12_Witness ==
    \E s \in Sessions :
        /\ worker[s].clear_failed
        /\ worker[s].pc = "done"
        /\ Len(worker[s].del_ok) = 1
        /\ worker[s].ops = <<"del">>

\* The column of a frame with the given label.
ColumnOf(frame, label) ==
    frame.data[CHOOSE j \in 1..Len(frame.cols) : frame.cols[j] = label]

\* The rows of a frame, in order.
RowsOf(frame) ==
    [r \in 1..frame.n |-> [c \in 1..Len(frame.cols) |-> frame.data[c][r]]]

\* C13: apply_cin7_column_mapping on a frame with the canonical columns
\* gives a frame in which every canonical column but Available holds the
\* values of the input's column of the same name.
C13_MappingIdempotent ==
    (proc.fam = "map" /\ proc.stage = 1 /\ proc.file.df.cols = CanonicalHeader) =>
        \A k \in 1..Len(Targets) :
            ColumnOf(proc.res.out, Targets[k]) = ColumnOf(proc.file.df, Targets[k])

\* The numeric value of an operand as the claim takes it: thousands
\* separators removed, then parsed, 0 when that is no number.
OperandValue(v) ==
    IF IsNum(v) THEN v.n
    ELSE IF v.t # "str" THEN 0
    ELSE LET p == ParseNumber(RemoveChars(v.s, {","}))
         IN  IF IsNum(p) THEN p.n ELSE 0

\* C14: in every row of the frame processing returns with mapping enabled,
\* Available is the value of SOH minus the value of Open Sales.
C14_AvailableIsDifference ==
    (proc.fam = "run" /\ proc.stage >= 1 /\ proc.mapping /\ ~proc.res.none) =>
        LET out == proc.res.out
        IN  \A r \in 1..out.n :
                OperandValue(ColumnOf(out, "Available")[r])
                  = OperandValue(ColumnOf(out, "SOH")[r])
                    - OperandValue(ColumnOf(out, "Open Sales")[r])

\* The flat label by the rule of header reconciliation.
ReconciledLabel(outer, inner) ==
    IF Strip(outer) # "" /\ Strip(inner) # "" /\ Strip(outer) # Strip(inner)
    THEN Strip(outer) \o "_" \o Strip(inner)
    ELSE IF Strip(inner) # "" THEN Strip(inner) ELSE Strip(outer)

\* C15: the flat label of (outer, inner) is trimmed outer, underscore,
\* trimmed inner when both are non-empty after trimming and differ, and the
\* trimmed non-empty one otherwise.
C15_HeaderReconciliation ==
    (proc.fam = "hdr" /\ proc.stage = 1) =>
        proc.flat = ReconciledLabel(proc.c0, proc.c1)

\* C16: clean_numeric_data applied to its own output changes no cell.
C16_CleanIdempotent ==
    (proc.fam = "clean" /\ proc.stage = 2) => proc.out2 = proc.res.out

\* What the row filter is to remove: an empty key, "nan", or a key that is
\* a footer marker up to case.
InvalidKey(v) ==
    /\ v.t = "str"
    /\ \/ v.s = ""
       \/ v.s = "nan"
       \/ Lower(v.s) \in {Lower(marker) : marker \in FooterMarkers}

\* C17: without verbatim mode the frame returned holds, in order, exactly
\* the rows of the frame before the filter whose key is valid; all of them
\* when there is no primary-key column; and nothing is raised.
C17_RowFilterExact ==
    (proc.fam = "run" /\ proc.stage >= 1 /\ ~proc.verbatim) =>
        LET pre == proc.res.pre
            pk  == product_code_col(pre.cols)
        IN  /\ ~proc.res.none
            /\ proc.res.out.cols = pre.cols
            /\ RowsOf(proc.res.out) =
                 IF pk = 0 THEN RowsOf(pre)
                 ELSE SelectSeq(RowsOf(pre), LAMBDA row : ~InvalidKey(row[pk]))

\* C18: a canonical column without a matching source column holds the
\* default in every row of the mapped frame: "0" for the four quantity
\* columns, "N/A" for the others.
C18_DefaultsFilled ==
    (proc.fam = "map" /\ proc.stage = 1) =>
        \A k \in 1..Len(Targets) :
            SourceCol(proc.file.df.cols, Targets[k]) = 0 =>
                \A r \in 1..proc.res.out.n :
                    ColumnOf(proc.res.out, Targets[k])[r] =
                        StrV(IF Targets[k] \in {"SOH", "Incoming NOT paid",
                                                "Open Sales", "Grand Total"}
                             THEN "0" ELSE "N/A")

\* C19: in every processing run, each canonical column without a matching
\* source column is named by an event of severity WARNING or ERROR.
C19_NoSilentFailure ==
    (proc.fam = "run" /\ proc.stage >= 1) =>
        \A k \in 1..Len(Targets) :
            SourceCol(proc.res.rec.cols, Targets[k]) = 0 =>
                \E e \in proc.res.log :
                    e.sev \in {"WARNING", "ERROR"} /\ e.about = Targets[k]

\* C20: in verbatim mode the frame returned has the columns and the rows of
\* the reconciled frame, in order (the cells of the columns that are not
\* numeric by their label unchanged), whatever the mapping toggle is.
C20_VerbatimPreserves ==
    (proc.fam = "run" /\ proc.stage >= 1 /\ proc.verbatim) =>
        LET rec == proc.res.rec
            out == proc.res.out
        IN  /\ out.cols = rec.cols
            /\ out.n = rec.n
            /\ \A c \in 1..Len(rec.cols) :
                  rec.cols[c] \notin all_numeric_columns(rec.cols) =>
                      out.data[c] = rec.data[c]


\* C21: when processing yields no table or an empty one, the session goes
\* from Processing straight to Finished with a failure outcome: no
\* confirmation is requested and no DeleteRows or AddRows call is made.
C21_EmptyEndsAtOnce ==
    processed_df.n = 0 =>
        \A s \in Sessions :
            /\ dialog[s] = "none"
            /\ worker[s].ops = <<>>
            /\ worker[s].pc \in {"idle", "l677", "l678", "finally", "done"}
            /\ worker[s].phases \in {<<>>, <<"Processing">>,
                                     <<"Processing", "Finished">>}
            /\ (worker[s].pc \in {"finally", "done"} =>
                    Kinds(worker[s]) = {"Failure"})

\* A session on an empty table has ended.
C21_Witness ==
    \E s \in Sessions :
        /\ processed_df.n = 0
        /\ worker[s].pc = "done"
        /\ worker[s].finished = 1
        /\ worker[s].phases = <<"Processing", "Finished">>


\* C23: a session makes a DeleteRows or AddRows call only after its own
\* prompt was accepted; it leaves the wait unaccepted only after its own
\* prompt was answered, at the bound of the wait or after a cancellation
\* request; and once its own prompt is accepted, with no cancellation
\* requested, it proceeds.
C23_OwnDecision ==
    \A s \in Sessions :
        /\ worker[s].ops # <<>> => worker[s].own_accept
        /\ worker[s].wait_exit # "stale"
        /\ (worker[s].own_accept /\ PastWait(s) /\ worker[s].cancel_req = 0) =>
               worker[s].accepted


\* C25: no delete batch and no upload batch is called more than
\* max_retries times, whatever the classes of the failures, and a batch is
\* not called again after a call of it succeeded.
C25_RetryBudget ==
    \A s \in Sessions :
        /\ worker[s].tries <= max_retries
        /\ ~worker[s].recalled

\* An upload batch failed max_retries times, once by a timeout and once by
\* another error, and the upload gave up.
C25_Witness ==
    \E s \in Sessions :
        /\ max_retries = 2
        /\ worker[s].call_kind = "add"
        /\ worker[s].tries = max_retries
        /\ worker[s].fails = {"timeout", "error"}
        /\ worker[s].exhausted > 0

\* C26: after the k-th failed attempt of a delete batch or of an upload
\* batch, the worker sleeps retry_delay * k before the next attempt.
C26_LinearBackoff ==
    \A s \in Sessions :
        worker[s].backoff > 0 => worker[s].backoff = RetryDelay * worker[s].tries


\* C30: every upload worker that starts ends; it puts upload_finished once,
\* as its last step, and that step leaves is_processing false.
C30_WorkerTerminates ==
    /\ \A s \in Sessions : (worker[s].pc # "idle") ~> (worker[s].pc = "done")
    /\ [](\A s \in Sessions :
            /\ worker[s].finished <= 1
            /\ worker[s].finished = 1 <=> worker[s].pc = "done")
    /\ [][\A s \in Sessions :
            (worker[s].pc # "done" /\ worker'[s].pc = "done") => ~is_processing']_vars

\* A worker has ended after a clearing that failed, and a later upload
\* could start.
C30_Witness ==
    \E s \in Sessions :
        /\ worker[s].pc = "done"
        /\ worker[s].finished = 1
        /\ worker[s].clear_failed
        /\ ~is_processing


\* C24: all the DeleteRows and AddRows calls of a session go through one
\* client and to one sheet, and every AddRows call goes to the sheet whose
\* column ids the session's column_map holds.
C24_OneTarget ==
    \A s \in Sessions :
        /\ Cardinality(worker[s].clients) <= 1
        /\ Cardinality(worker[s].sheets) <= 1
        /\ worker[s].add_sheets \subseteq {worker[s].column_map}


NonEmpty(v) == v.t # "nan" /\ Strip(AsStr(v)) # ""

\* C27: the list of each upload batch holds one remote row per table row of
\* the batch, in order, and the remote row has a cell for a column exactly
\* when the row's value in it is not empty and the column is in the schema.
C27_RowsOfBatch ==
    (proc.fam = "run" /\ proc.stage = 2) =>
        LET out == proc.res.out
        IN  \A k \in 1..Len(proc.batches) :
                LET rows == proc.batches[k]
                    lo   == (k - 1) * batch_size
                    hi   == Min(k * batch_size, out.n)
                IN  /\ Len(rows) = hi - lo
                    /\ \A i \in 1..Len(rows) :
                          /\ rows[i].src = lo + i
                          /\ \A c \in 1..Len(out.cols) :
                                (\E j \in 1..Len(rows[i].cells) :
                                    rows[i].cells[j].c = c)
                                <=> (/\ NonEmpty(out.data[c][rows[i].src])
                                     /\ out.cols[c] \in SheetColumns)

\* C28: every submitted cell of a numeric-semantic column carries a
\* number, an integer when it has no fractional part, and every submitted
\* cell of another column carries a string.
C28_CellTypes ==
    (proc.fam = "run" /\ proc.stage = 2) =>
        \A k \in 1..Len(proc.batches) :
            \A i \in 1..Len(proc.batches[k]) :
                \A j \in 1..Len(proc.batches[k][i].cells) :
                    LET cell == proc.batches[k][i].cells[j]
                    IN  IF cell.column \in all_numeric_columns(proc.res.out.cols)
                        THEN /\ IsNum(cell.value)
                             /\ (cell.value.n % Scale = 0 => cell.value.t = "int")
                        ELSE cell.value.t = "str"

\* C29: in every table process_cin7_excel_data returns, each cell of a
\* numeric-semantic column is a number and each cell of another column is
\* a string.
C29_NormalizedTable ==
    (proc.fam = "run" /\ proc.stage >= 1 /\ ~proc.res.none) =>
        LET out == proc.res.out
        IN  \A c \in 1..Len(out.cols) :
                \A r \in 1..out.n :
                    IF out.cols[c] \in all_numeric_columns(out.cols)
                    THEN IsNum(out.data[c][r])
                    ELSE out.data[c][r].t = "str"

\* C31: each row of the table is inserted into the remote sheet at most
\* once per upload session, also when an AddRows call that timed out for
\* the worker was applied by the remote service before the retry.
C31_RowsInsertedOnce ==
    \A i \in 1..Len(added) : \A j \in 1..Len(added) :
        added[i] = added[j] => i = j

\* C32: a session whose upload batches were all submitted successfully ends
\* with Success, whenever the cancellation flag was set relative to the last
\* batch; and a session ends with Success only if all its batches were
\* submitted successfully.
C32_SuccessIffAllBatches ==
    \A s \in Sessions :
        worker[s].pc = "done" =>
            LET all == /\ worker[s].column_map # 0
                       /\ Len(worker[s].add_ok)
                             = CeilDiv(processed_df.n, batch_size)
            IN  all <=> "Success" \in Kinds(worker[s])

\* The table rows session s appended to the remote sheet, in sheet order.
AppendedBy(s) ==
    LET mine == SelectSeq(added, LAMBDA a : a[1] = s)
    IN  [j \in 1..Len(mine) |-> mine[j][2]]

\* The rows of the table that yield a cell, in table order.
RowsWithCells ==
    SelectSeq([i \in 1..processed_df.n |-> i],
              LAMBDA r : r \notin processed_df.nocell)

\* C33: upload batches are submitted in table order: batch k+1 is first
\* tried only after an AddRows call of batch k succeeded, and the sequence
\* of rows a session appended remotely is a prefix of the table's rows
\* (rows without cells left out).
C33_TableOrder ==
    \A s \in Sessions :
        /\ worker[s].add_tried <= Len(worker[s].add_ok) + 1
        /\ Len(AppendedBy(s)) <= Len(RowsWithCells)
        /\ AppendedBy(s) = SubSeq(RowsWithCells, 1, Len(AppendedBy(s)))

\* C37: within one upload session the percentages of successive progress
\* events never decrease and stay within 0..100, for every number of rows,
\* batch size and set of rows left out for having no cells.
C37_ProgressMonotone ==
    \A s \in Sessions :
        /\ ~worker[s].pct_fell
        /\ ~worker[s].pct_out
        /\ worker[s].pct \in 0..100

\* A session of two upload batches, with a row left out for having no
\* cells, has gone through all its progress events.
C37_Witness ==
    \E s \in Sessions :
        /\ worker[s].pc = "done"
        /\ worker[s].pct = 100
        /\ Len(worker[s].add_ok) = 2
        /\ processed_df.nocell # {}
        /\ "Clearing" \in SeqRange(worker[s].phases)

\* C34: the table a preview or an upload processes is the content of the
\* file selected when processing starts, also after the user selected
\* another file whose analysis has not completed or has failed.
C34_SelectedFileProcessed ==
    (proc.fam = "file" /\ proc.stage >= 1 /\ proc.read_ok) =>
        proc.file.df = ReadFile(proc.selected).df

\* C35: processing leaves the stored raw tables unchanged: the single-header
\* and the dual-header table kept from the analysis have the column labels
\* and the cell values they were read with.
C35_RawTablesUnchanged ==
    file_analysis.has =>
        \E path \in Paths : file_analysis.tables = ReadFile(path)

\* C36: when a dual-header reading is available processing reconciles and
\* uses the dual-header table, in verbatim mode or not; the single-header
\* table is used, untransformed, only when there is no dual-header reading.
C36_DualHeaderPreferred ==
    (proc.fam = "file" /\ proc.stage >= 1 /\ proc.read_ok) =>
        LET f == proc.file
        IN  IF f.outer # <<>>
            THEN proc.res.rec.cols =
                    [j \in 1..Len(f.df.cols) |->
                        new_columns(f.outer[j], f.df.cols[j])]
            ELSE IF f.flat # <<>>
            THEN proc.res.rec.cols = f.flat
            ELSE proc.res.rec = f.df

====
